---- MODULE Spec2Model ----
(***************************************************************************)
(* sv-sim: the tokenizer and the recursive-descent parser of lib.rs and    *)
(* var_types.rs, as a state machine over one forward-only token cursor.    *)
(*                                                                         *)
(* The crate root is lib.rs (main.rs calls sv_sim::parse_sv_file); it      *)
(* declares `pub mod var_types` only, so the parsers modelled are those of *)
(* lib.rs and var_types.rs.  One action is one iteration of one parser's   *)
(* `while let Some(token) = lexer.next()` loop, the returns it triggers    *)
(* in its callers included.                                                *)
(*                                                                         *)
(* Time values are kept exact in units of 1e-9: 1e-6 is 1000, 1e-9 is 1.   *)
(***************************************************************************)
EXTENDS Integers, Sequences, FiniteSets, TLC

VARIABLES file, src, pos, stack, result, sv, md, io, vr, nm, wd, st, hist

vars == <<file, src, pos, stack, result, sv, md, io, vr, nm, wd, st, hist>>

(***************************************************************************)
(* Bounds of the model.                                                    *)
(***************************************************************************)
MaxItems == 2      \* top-level items of a generated file
MaxPorts == 2      \* ports of a generated module header
MaxDecls == 2      \* wire/reg declarations of a generated module body
MaxLit   == 2      \* small integer literals 0..MaxLit used in ranges
MaxBetween == 1    \* items between two timescale directives
MaxTsToks == 4     \* tokens after the backtick of a generated directive
MaxNameToks == 3   \* tokens after the first word of a generated name

(***************************************************************************)
(* Program constants.                                                      *)
(***************************************************************************)
U8Max   == 255     \* Token::Integer(u8): the largest integer literal
NsScale == 1000    \* nanosecond(): val * 0.000_001, in units of 1e-9
PsScale == 1       \* picosecond(): val * 0.000_000_001, in units of 1e-9
DefaultWidth == 0  \* Var derives Default: width: u64 defaults to 0
VarInitWidth == 1  \* parse_var: let mut width: u64 = 1

(***************************************************************************)
(* Lexemes: the pieces of source text the logos rules of Token match.      *)
(* t is the rule, s the matched text (lexer.slice()) where the parsers     *)
(* read it, v the number spelled by a digit sequence.                      *)
(***************************************************************************)
Lx(t, s, v) == [t |-> t, s |-> s, v |-> v]
K(t)        == Lx(t, "", 0)
Word(s)     == Lx("Word", s, 0)
Digits(v)   == Lx("Digits", "", v)
TimeNs(v)   == Lx("TimeNs", "", v)
TimePs(v)   == Lx("TimePs", "", v)
WS          == K("WhiteSpace")
NL          == K("Newline")
BadChar     == K("Bad")

(***************************************************************************)
(* LexingError values.                                                     *)
(***************************************************************************)
InvalidIntegerOverflow == "InvalidInteger(overflow error)"
UnexpectedToken        == "UnexpectedToken"
ImproperTimeFormatting == "ImproperTimeFormatting"
NegativeBitWidth       == "NegativeBitWidth"
IncompleteWidth        == "IncompleteWidth"
NoError                == "none"

(***************************************************************************)
(* The tokenizer: what lexer.next() yields for one lexeme.                 *)
(*   [0-9]+ runs lex.slice().parse() into the u8 of Integer(u8);           *)
(*   \d+ns and \d+ps run nanosecond / picosecond;                          *)
(*   text that no rule matches yields the default error UnexpectedToken.   *)
(***************************************************************************)
TokOk(t, s, v) == [ok |-> TRUE, t |-> t, s |-> s, v |-> v, err |-> NoError]
TokErr(e)      == [ok |-> FALSE, t |-> "Error", s |-> "", v |-> 0, err |-> e]

nanosecond(n) == n * NsScale
picosecond(n) == n * PsScale

IntegerFits(v) == v <= U8Max

Lex(l) ==
  CASE l.t = "Digits" -> IF IntegerFits(l.v) THEN TokOk("Integer", l.s, l.v)
                         ELSE TokErr(InvalidIntegerOverflow)
    [] l.t = "TimeNs" -> TokOk("Time", l.s, nanosecond(l.v))
    [] l.t = "TimePs" -> TokOk("Time", l.s, picosecond(l.v))
    [] l.t = "Bad"    -> TokErr(UnexpectedToken)
    [] OTHER          -> TokOk(l.t, l.s, l.v)

(***************************************************************************)
(* Data model: SimTime, Var, Input/Output/Inout, ModuleIO, Module,         *)
(* SimObject.                                                              *)
(***************************************************************************)
SimTime(n, d) == [n_time |-> n, d_time |-> d]
SimTimeDefault == SimTime(NsScale, PsScale)

Var(name, width, var_type) ==
  [name |-> name, width |-> width, var_type |-> var_type,
   state |-> FALSE, hi_z |-> FALSE]

Port(name, v) == [name |-> name, var |-> v]

ModuleIO(name, inputs, outputs, inouts) ==
  [name |-> name, inputs |-> inputs, outputs |-> outputs, inouts |-> inouts]
ModuleIODefault == ModuleIO("", <<>>, <<>>, <<>>)

Module(mio, vs) == [name |-> mio.name, io |-> mio, vars |-> vs]

SimObject(t, mods) == [sim_time |-> t, mods |-> mods]
NoObject == SimObject(SimTime(0, 0), <<>>)

(***************************************************************************)
(* Result values passed between parsers and returned by parse_sv_file.     *)
(***************************************************************************)
Ok(val) == [ok |-> TRUE, val |-> val, err |-> NoError]
Err(e)  == [ok |-> FALSE, val |-> 0, err |-> e]

Running   == [kind |-> "Running", obj |-> NoObject, err |-> NoError]
RetOk(o)  == [kind |-> "Ok", obj |-> o, err |-> NoError]
RetErr(e) == [kind |-> "Err", obj |-> NoObject, err |-> e]
Panicked  == [kind |-> "Panic", obj |-> NoObject, err |-> NoError]

(***************************************************************************)
(* Source files.  A file is described by its top-level items and rendered  *)
(* to the lexemes its text consists of; `bad` > 0 puts one character that  *)
(* no token rule matches in front of lexeme number `bad`.                  *)
(*   ts  : `timescale <n>/<d>\n                                            *)
(*   mod : module <name>(<ports>);\n <body> endmodule\n                    *)
(*   raw : the lexemes given                                               *)
(***************************************************************************)
Decl(dir, ty, rng, name) == [dir |-> dir, ty |-> ty, rng |-> rng, name |-> name]

Item(k, n, d, name, ports, body, toks) ==
  [k |-> k, n |-> n, d |-> d, name |-> name, ports |-> ports, body |-> body,
   toks |-> toks]
Ts(n, d)               == Item("ts", n, d, "", <<>>, <<>>, <<>>)
Mod(name, ports, body) == Item("mod", WS, WS, name, ports, body, <<>>)
Raw(toks)              == Item("raw", WS, WS, "", <<>>, <<>>, toks)

File(items, bad) == [items |-> items, bad |-> bad]

RECURSIVE Flatten(_)
Flatten(ss) == IF ss = <<>> THEN <<>> ELSE Head(ss) \o Flatten(Tail(ss))

RenderRange(rng) ==
  IF rng = <<>> THEN <<>>
  ELSE <<K("OpenBracket"), Digits(rng[1]), K("Colon"), Digits(rng[2]),
         K("CloseBracket"), WS>>

RenderType(ty) == IF ty = "none" THEN <<>> ELSE <<K(ty), WS>>

RenderPort(p) ==
  <<K(p.dir), WS>> \o RenderType(p.ty) \o RenderRange(p.rng) \o <<Word(p.name)>>

RenderPorts(ps) ==
  Flatten([i \in 1..Len(ps) |->
             (IF i = 1 THEN <<>> ELSE <<K("Comma"), WS>>) \o RenderPort(ps[i])])

RenderDecl(d) ==
  <<WS, K(d.ty), WS>> \o RenderRange(d.rng)
    \o <<Word(d.name), K("Semicolon"), NL>>

RenderItem(it) ==
  CASE it.k = "ts"  -> <<K("BTick"), K("Timescale"), WS, it.n, K("Divide"),
                         it.d, NL>>
    [] it.k = "mod" -> <<K("Module"), WS, Word(it.name), K("OpenParen")>>
                         \o RenderPorts(it.ports)
                         \o <<K("CloseParen"), K("Semicolon"), NL>>
                         \o Flatten([i \in 1..Len(it.body) |->
                                       RenderDecl(it.body[i])])
                         \o <<K("EndModule"), NL>>
    [] OTHER        -> it.toks

RenderItems(items) == Flatten([i \in 1..Len(items) |-> RenderItem(items[i])])

Render(f) ==
  LET ts == RenderItems(f.items) IN
  IF f.bad = 0 THEN ts
  ELSE SubSeq(ts, 1, f.bad - 1) \o <<BadChar>> \o SubSeq(ts, f.bad, Len(ts))

SeqsUpTo(S, n) == UNION {[1..k -> S] : k \in 0..n}

(***************************************************************************)
(* The files the model parses.                                             *)
(***************************************************************************)
Lits == (0..MaxLit) \cup {7, U8Max, U8Max + 1}

InA  == Decl("Input", "none", <<>>, "a")
OutB == Decl("Output", "none", <<>>, "b")
PortSet ==
  {InA, OutB, Decl("Inout", "none", <<>>, "d"),
   Decl("Input", "Reg", <<>>, "e"), Decl("Output", "Wire", <<1, 0>>, "f")}

WireC == Decl("Body", "Wire", <<>>, "c")
RegR  == Decl("Body", "Reg", <<>>, "r")
DeclSet ==
  {WireC, RegR, Decl("Body", "Reg", <<1, 0>>, "w")}

Ts1 == Ts(TimeNs(1), TimePs(1))
Ts2 == Ts(TimeNs(10), TimeNs(2))

ExampleModule == Mod("m", <<InA, OutB>>, <<WireC>>)
ExampleFile   == File(<<Ts1, ExampleModule>>, 0)

CommentLine == Raw(<<K("Comment")>>)

CoreItems ==
  {Ts1, Ts2,
   Mod("m", <<>>, <<>>), Mod("k", <<>>, <<WireC>>), Mod("n", <<InA>>, <<RegR>>),
   ExampleModule,
   CommentLine,
   Raw(<<BadChar, NL>>),
   Raw(<<K("BTick"), Word("define"), NL>>),
   Raw(<<K("BTick"), K("Timescale"), WS, K("Timescale"), NL>>),
   Raw(<<K("BTick"), K("Timescale"), WS, TimeNs(1), WS, TimeNs(2), NL>>),
   Raw(<<K("BTick"), TimeNs(1), NL>>),
   Raw(<<K("Assign"), NL>>)}

ItemFiles == {File(s, 0) : s \in SeqsUpTo(CoreItems, MaxItems)}

ModFiles ==
  {File(<<Mod("m", ps, ds)>>, 0) :
     ps \in SeqsUpTo(PortSet, MaxPorts), ds \in SeqsUpTo(DeclSet, MaxDecls)}

RangeFiles ==
  {File(<<Mod("m", <<Decl("Input", "none", <<hi, lo>>, "a")>>, <<>>)>>, 0) :
     hi \in Lits, lo \in Lits}
  \cup
  {File(<<Mod("m", <<>>, <<Decl("Body", "Wire", <<hi, lo>>, "c")>>)>>, 0) :
     hi \in Lits, lo \in Lits}

BadBases ==
  {<<Ts1, ExampleModule>>,
   <<Mod("m", <<Decl("Input", "none", <<1, 0>>, "a")>>, <<>>)>>,
   <<Mod("m", <<>>, <<Decl("Body", "Reg", <<1, 0>>, "r")>>), CommentLine, Ts2>>}

BadFiles ==
  {File(b, i) : b \in BadBases, i \in 1..30} \cap
  {f \in [items : BadBases, bad : 1..30] : f.bad <= Len(RenderItems(f.items)) + 1}

TsFiles ==
  {File(<<t1>> \o mid \o <<t2>>, 0) :
     t1 \in {Ts1, Ts2}, t2 \in {Ts1, Ts2},
     mid \in SeqsUpTo(CoreItems, MaxBetween)}

\* a backtick followed by any short run of the tokens parse_sim_time acts
\* on; runs whose text would lex differently (two keywords or two blanks
\* in a row) are left out
TsAlphabet == {K("Timescale"), TimeNs(1), TimePs(2), K("Divide"), WS}

Lexable(ts) ==
  \A i \in 1..(Len(ts) - 1) :
    ~(ts[i].t = ts[i + 1].t /\ ts[i].t \in {"Timescale", "WhiteSpace", "Word"})

SimTimeFiles ==
  {File(<<Raw(<<K("BTick")>> \o ts)>>, 0) :
     ts \in {x \in SeqsUpTo(TsAlphabet, MaxTsToks) : Lexable(x)}}

\* files that end early: every proper prefix of a few texts
TruncBases ==
  {<<Ts1, ExampleModule>>,
   <<Mod("m", <<Decl("Input", "Reg", <<1, 0>>, "a")>>, <<>>)>>,
   <<Mod("k", <<>>, <<WireC, Decl("Body", "Reg", <<1, 0>>, "r")>>)>>}

TruncFiles ==
  UNION {{File(<<Raw(SubSeq(r, 1, k))>>, 0) : k \in 1..(Len(r) - 1)} :
           r \in {RenderItems(b) : b \in TruncBases}}

\* module k();\n wire c; // note\nendmodule\nmodule m(input wire a);\n
\* endmodule\n
TrailingCommentFile ==
  File(<<Raw(<<K("Module"), WS, Word("k"), K("OpenParen"), K("CloseParen"),
              K("Semicolon"), NL, WS, K("Wire"), WS, Word("c"),
              K("Semicolon"), WS, K("Comment")>>),
         Raw(<<K("EndModule"), NL>>),
         Mod("m", <<Decl("Input", "Wire", <<>>, "a")>>, <<>>)>>, 0)

\* module m(input [0:7] a, input wire b);\nendmodule\n
BadRangeFile ==
  File(<<Mod("m", <<Decl("Input", "none", <<0, 7>>, "a"),
                    Decl("Input", "Wire", <<>>, "b")>>, <<>>)>>, 0)

\* module m(// note\n$\ninput a);\nendmodule\n
HeaderCommentFile ==
  File(<<Raw(<<K("Module"), WS, Word("m"), K("OpenParen"), K("Comment"),
              BadChar, NL, K("Input"), WS, Word("a"), K("CloseParen"),
              K("Semicolon"), NL, K("EndModule"), NL>>)>>, 0)

\* module m()// note\n$\n;\nendmodule\n
SemiCommentFile ==
  File(<<Raw(<<K("Module"), WS, Word("m"), K("OpenParen"), K("CloseParen"),
              K("Comment"), BadChar, NL, K("Semicolon"), NL, K("EndModule"),
              NL>>)>>, 0)

\* module k();\n wire\nendmodule\nmodule m();\nendmodule\n
DanglingWireFile ==
  File(<<Raw(<<K("Module"), WS, Word("k"), K("OpenParen"), K("CloseParen"),
              K("Semicolon"), NL, WS, K("Wire"), NL, K("EndModule"), NL>>),
         Mod("m", <<>>, <<>>)>>, 0)

ScenarioFiles ==
  {TrailingCommentFile, BadRangeFile, HeaderCommentFile, SemiCommentFile,
   DanglingWireFile}

\* a port name and a body signal name followed by any short run of the
\* tokens parse_name acts on:  module m(input a<run>  and
\* module k();\n wire c<run>
NameAlphabet ==
  {Word("x"), K("Underscore"), WS, NL, K("Semicolon"), K("Comma"),
   K("CloseParen")}

NameRuns ==
  {ts \in SeqsUpTo(NameAlphabet, MaxNameToks) : Lexable(<<Word("a")>> \o ts)}

PortNameStart ==
  <<K("Module"), WS, Word("m"), K("OpenParen"), K("Input"), WS, Word("a")>>

BodyNameStart ==
  <<K("Module"), WS, Word("k"), K("OpenParen"), K("CloseParen"),
    K("Semicolon"), NL, WS, K("Wire"), WS, Word("c")>>

\* module m(input [N] a);\nendmodule\n
SingleFiles ==
  {File(<<Raw(<<K("Module"), WS, Word("m"), K("OpenParen"), K("Input"), WS,
               K("OpenBracket"), Digits(n), K("CloseBracket"), WS, Word("a"),
               K("CloseParen"), K("Semicolon"), NL, K("EndModule"), NL>>)>>,
        0) : n \in Lits}

NameFiles ==
  {File(<<Raw(start \o ts)>>, 0) :
     start \in {PortNameStart, BodyNameStart}, ts \in NameRuns}

Files ==
  ItemFiles \cup ModFiles \cup RangeFiles \cup BadFiles \cup TsFiles
    \cup SimTimeFiles \cup TruncFiles \cup ScenarioFiles \cup NameFiles
    \cup SingleFiles

(***************************************************************************)
(* The machine: the call stack of parsers (innermost last), the locals of  *)
(* each parser, and the value parse_sv_file has returned.  No parser is    *)
(* re-entered while it is active, so each has one set of locals.           *)
(*   hist.owner   the parser each consumed token was delivered to          *)
(*   hist.toks    the token lexer.next() yielded for each consumed lexeme  *)
(*   hist.lexErrs the lexical errors lexer.next() has yielded, in order    *)
(*   hist.raised  every error value a parser has created or received from  *)
(*                the lexer, in order                                      *)
(*   hist.rets    every return of a parser: the parser, its result, its    *)
(*                locals and the number of tokens consumed at that point   *)
(***************************************************************************)
Cur ==
  [stack |-> stack, result |-> result, sv |-> sv, md |-> md, io |-> io,
   vr |-> vr, nm |-> nm, wd |-> wd, st |-> st, hist |-> hist]

Commit(n) ==
  /\ stack' = n.stack
  /\ result' = n.result
  /\ sv' = n.sv
  /\ md' = n.md
  /\ io' = n.io
  /\ vr' = n.vr
  /\ nm' = n.nm
  /\ wd' = n.wd
  /\ st' = n.st
  /\ hist' = n.hist

Top == IF stack = <<>> THEN "none" ELSE stack[Len(stack)]
Caller(m) == m.stack[Len(m.stack) - 1]
Pop(m)  == [m EXCEPT !.stack = SubSeq(@, 1, Len(@) - 1)]
Push(m, p) == [m EXCEPT !.stack = Append(@, p)]
Raise(m, e) == [m EXCEPT !.hist.raised = Append(@, e)]
Log(m, p, res, loc) ==
  [m EXCEPT !.hist.rets =
     Append(@, [p |-> p, res |-> res, loc |-> loc, n |-> Len(m.hist.owner)])]

SvLocals  == [sim_time |-> SimTimeDefault, mods |-> <<>>, errors |-> <<>>]
MdLocals  == [in_wire |-> FALSE, in_reg |-> FALSE, vars |-> <<>>,
              io |-> ModuleIODefault]
IoLocals  == [state |-> "Name", name |-> "", inputs |-> <<>>,
              outputs |-> <<>>, inouts |-> <<>>]
VrLocals(port) == [port |-> port, width |-> VarInitWidth, var_type |-> "Wire"]
WdLocals  == [start |-> 0, end |-> 0, end_found |-> FALSE]
StLocals  == [n_time |-> 0, d_time |-> 0, timescale_started |-> FALSE,
              n_found |-> FALSE, n_search |-> TRUE]
HistInit  == [owner |-> <<>>, toks |-> <<>>, lexErrs |-> <<>>,
              raised |-> <<>>, rets |-> <<>>]

(***************************************************************************)
(* Returns.  Each operator is what the caller does with a callee's result  *)
(* before it asks the lexer for another token.                             *)
(***************************************************************************)

\* parse_sv_file returns r to its caller
SvReturn(m, r) == [m EXCEPT !.stack = <<>>, !.result = r]

\* parse_sv_file, arm Ok(Token::Module): Ok pushes the module, Err is
\* pushed on `errors` and the loop goes on
SvOnModule(l, res) ==
  IF res.ok THEN [l EXCEPT !.mods = Append(@, res.val)]
  ELSE [l EXCEPT !.errors = Append(@, res.err)]

\* parse_sv_file, arm Ok(Token::BTick)
SvOnSimTime(l, res) ==
  IF res.ok THEN [l EXCEPT !.sim_time = res.val]
  ELSE [l EXCEPT !.errors = Append(@, res.err)]

\* parse_sv_file, arm Ok(Token::Comment)
SvOnComment(l, res) ==
  IF res.ok THEN l ELSE [l EXCEPT !.errors = Append(@, res.err)]

ModuleReturn(m, res) ==
  [Log(m, "module", res, m.md) EXCEPT
     !.stack = <<"sv">>, !.sv = SvOnModule(@, res)]

SimTimeReturn(m, res) ==
  [Log(m, "simtime", res, m.st) EXCEPT
     !.stack = <<"sv">>, !.sv = SvOnSimTime(@, res)]

\* parse_module: let io = match parse_module_io(lexer) { Ok(ret) => ret,
\* Err(_) => ModuleIO::default() }
HeaderOrDefault(res) == IF res.ok THEN res.val ELSE ModuleIODefault

IoReturn(m, res) ==
  [Log(m, "io", res, m.io) EXCEPT
     !.stack = <<"sv", "module">>, !.md.io = HeaderOrDefault(res)]

\* parse_input / parse_output / parse_inout: wrap parse_var's triple
parse_port_Unnamed(t) == Port(t.name, Var("", t.width, t.var_type))

parse_port(t) == Port(t.name, Var(t.name, t.width, t.var_type))

\* parse_module_io, State::IO arms Input / Output / Inout
IoPush(l, port, rec) ==
  CASE port = "Input"  -> [l EXCEPT !.inputs = Append(@, rec)]
    [] port = "Output" -> [l EXCEPT !.outputs = Append(@, rec)]
    [] OTHER           -> [l EXCEPT !.inouts = Append(@, rec)]

\* parse_var returns res: the port parser wraps or forwards it, and the
\* header parser pushes the record or returns the error
VarReturn(m, res) ==
  LET l == Log(m, "var", res, m.vr) IN
  IF res.ok
  THEN [Pop(l) EXCEPT !.io = IoPush(@, m.vr.port, parse_port(res.val))]
  ELSE IoReturn(l, Err(res.err))

VarTriple(l, name) ==
  [var_type |-> l.var_type, name |-> name, width |-> l.width]

\* parse_module, in_wire / in_reg arms: vars.push(Var { name, var_type,
\* ..Default::default() })
BodyVar(name, ty) == Var(name, DefaultWidth, ty)

BodyPush(l, res) ==
  IF res.ok
  THEN [l EXCEPT !.vars = Append(@, BodyVar(res.val,
                                   IF l.in_wire THEN "Wire" ELSE "Reg")),
                 !.in_wire = FALSE, !.in_reg = FALSE]
  ELSE l

\* parse_name returns res to parse_var or to parse_module
NameReturn(m, res) ==
  LET l == Log(m, "name", res, [name |-> m.nm, caller |-> Caller(m)]) IN
  IF Caller(m) = "var"
  THEN VarReturn(Pop(l), IF res.ok THEN Ok(VarTriple(m.vr, res.val))
                         ELSE Err(res.err))
  ELSE [Pop(l) EXCEPT !.md = BodyPush(@, res)]

\* parse_width returns res to parse_var
WidthReturn(m, res) ==
  LET l == Log(m, "width", res, m.wd) IN
  IF res.ok THEN [Pop(l) EXCEPT !.vr.width = res.val]
  ELSE VarReturn(Pop(l), Err(res.err))

\* parse_comment returns res to whoever called it
CommentReturn(m, res) ==
  LET l == Log(m, "comment", res, [caller |-> Caller(m)]) IN
  CASE Caller(m) = "sv"     -> [Pop(l) EXCEPT !.sv = SvOnComment(@, res)]
    [] Caller(m) = "module" -> IF res.ok THEN Pop(l)
                               ELSE ModuleReturn(Pop(l), Err(res.err))
    [] OTHER                -> Pop(l)

(***************************************************************************)
(* One loop iteration of each parser on token tok, and what each parser    *)
(* does when lexer.next() is None.                                         *)
(***************************************************************************)

\* parse_sv_file
SvStep(m, tok) ==
  CASE ~tok.ok          -> SvReturn(Raise(m, tok.err), RetErr(tok.err))
    [] tok.t = "Module" -> [m EXCEPT !.stack = <<"sv", "module", "io">>,
                                     !.md = MdLocals, !.io = IoLocals]
    [] tok.t = "BTick"  -> [Push(m, "simtime") EXCEPT !.st = StLocals]
    [] tok.t = "Comment" -> Push(m, "comment")
    [] OTHER            -> m

SvEnd(m) == SvReturn(m, RetOk(SimObject(m.sv.sim_time, m.sv.mods)))

\* parse_module_io
IoResult(l) == Ok(ModuleIO(l.name, l.inputs, l.outputs, l.inouts))

IoNextState_Skip(state, t) ==
  CASE state = "Name"  /\ t = "Word"       -> "IO"
    [] state = "Paren" /\ t = "OpenParen"  -> "IO"
    [] state = "IO"    /\ t = "CloseParen" -> "Semi"
    [] OTHER                               -> state

IoNextState(state, t) ==
  CASE state = "Name"  /\ t = "Word"       -> "Paren"
    [] state = "Paren" /\ t = "OpenParen"  -> "IO"
    [] state = "IO"    /\ t = "CloseParen" -> "Semi"
    [] OTHER                               -> state

IoStep(m, tok) ==
  CASE ~tok.ok -> IoReturn(Raise(m, tok.err), Err(tok.err))
    [] tok.ok /\ m.io.state = "Name" /\ tok.t = "Word" ->
         [m EXCEPT !.io.name = tok.s, !.io.state = IoNextState(@, tok.t)]
    [] tok.ok /\ m.io.state = "IO" /\ tok.t \in {"Input", "Output", "Inout"} ->
         [Push(m, "var") EXCEPT !.vr = VrLocals(tok.t)]
    [] tok.ok /\ m.io.state \in {"IO", "Semi"} /\ tok.t = "Comment" ->
         Push(m, "comment")
    [] tok.ok /\ m.io.state = "Semi" /\ tok.t = "Semicolon" ->
         IoReturn(m, IoResult(m.io))
    [] OTHER -> [m EXCEPT !.io.state = IoNextState(@, tok.t)]

IoEnd(m) == IoReturn(m, IoResult(m.io))

\* parse_module, the loop after the header
ModuleResult(l) == Ok(Module(l.io, l.vars))

ModuleStep(m, tok) ==
  IF m.md.in_wire \/ m.md.in_reg
  THEN CASE ~tok.ok         -> ModuleReturn(Raise(m, tok.err), Err(tok.err))
         [] tok.t = "Word"  -> [Push(m, "name") EXCEPT !.nm = tok.s]
         [] OTHER           -> m
  ELSE CASE ~tok.ok            -> ModuleReturn(Raise(m, tok.err), Err(tok.err))
         [] tok.t = "Wire"     -> [m EXCEPT !.md.in_wire = TRUE]
         [] tok.t = "Reg"      -> [m EXCEPT !.md.in_reg = TRUE]
         [] tok.t = "Comment"  -> Push(m, "comment")
         [] tok.t = "EndModule" -> ModuleReturn(m, ModuleResult(m.md))
         [] OTHER              -> m

ModuleEnd(m) == ModuleReturn(m, ModuleResult(m.md))

\* parse_var
VarStep(m, tok) ==
  CASE ~tok.ok               -> VarReturn(Raise(m, tok.err), Err(tok.err))
    [] tok.t = "Wire"        -> [m EXCEPT !.vr.var_type = "Wire"]
    [] tok.t = "Reg"         -> [m EXCEPT !.vr.var_type = "Reg"]
    [] tok.t = "Word"        -> [Push(m, "name") EXCEPT !.nm = tok.s]
    [] tok.t = "OpenBracket" -> [Push(m, "width") EXCEPT !.wd = WdLocals]
    [] tok.t = "Comment"     -> Push(m, "comment")
    [] OTHER                 -> m

VarEnd_Incomplete(m) ==
  VarReturn(Raise(m, IncompleteWidth), Err(IncompleteWidth))

VarEnd(m) == VarReturn(Raise(m, UnexpectedToken), Err(UnexpectedToken))

\* parse_name
NameStep_NoUnderscore(m, tok) ==
  CASE ~tok.ok                          -> NameReturn(Raise(m, tok.err),
                                                      Err(tok.err))
    [] tok.t = "Word"                   -> [m EXCEPT !.nm = @ \o tok.s]
    [] tok.t \in {"Semicolon", "Comma"} -> NameReturn(m, Ok(m.nm))
    [] OTHER                            -> m

NameStep(m, tok) ==
  CASE ~tok.ok                          -> NameReturn(Raise(m, tok.err),
                                                      Err(tok.err))
    [] tok.t = "Word"                   -> [m EXCEPT !.nm = @ \o tok.s]
    [] tok.t = "Underscore"             -> [m EXCEPT !.nm = @ \o "_"]
    [] tok.t \in {"Semicolon", "Comma"} -> NameReturn(m, Ok(m.nm))
    [] OTHER                            -> m

NameEnd(m) == NameReturn(m, Ok(m.nm))

\* parse_width.  start and end take the u8 of Integer(u8), so
\* end - start + 1 is u8 arithmetic: when it does not fit, a build with
\* overflow checks panics and a build without them wraps.
NegativeWidth_OffByOne(end, start) == end + 1 < start

NegativeWidth(end, start) == end < start

WidthValue(end, start) == end - start + 1

WidthOverflows(v) == v > U8Max

WidthOnInteger(l, val) ==
  IF ~l.end_found THEN [l EXCEPT !.end = val, !.end_found = TRUE]
  ELSE [l EXCEPT !.start = val]

WidthClose(m, oc) ==
  LET v == WidthValue(m.wd.end, m.wd.start) IN
  IF NegativeWidth(m.wd.end, m.wd.start)
  THEN WidthReturn(Raise(m, NegativeBitWidth), Err(NegativeBitWidth))
  ELSE IF WidthOverflows(v) /\ oc = "panic"
       THEN SvReturn(m, Panicked)
       ELSE WidthReturn(m, Ok(v % (U8Max + 1)))

WidthStep(m, tok, oc) ==
  CASE ~tok.ok                -> WidthReturn(Raise(m, tok.err), Err(tok.err))
    [] tok.t = "Integer"      -> [m EXCEPT !.wd = WidthOnInteger(@, tok.v)]
    [] tok.t = "CloseBracket" -> WidthClose(m, oc)
    [] OTHER                  -> m

WidthEnd_Lenient(m) == WidthReturn(m, Ok(VarInitWidth))

WidthEnd(m) == WidthReturn(Raise(m, IncompleteWidth), Err(IncompleteWidth))

\* parse_sim_time
SimTimeResult(l) == Ok(SimTime(l.n_time, l.d_time))

SimTimeOnTime_Lenient(m, val) ==
  CASE ~m.st.timescale_started ->
         SimTimeReturn(Raise(m, UnexpectedToken), Err(UnexpectedToken))
    [] m.st.timescale_started /\ m.st.n_search ->
         [m EXCEPT !.st.n_time = val, !.st.n_found = TRUE]
    [] OTHER ->
         SimTimeReturn([m EXCEPT !.st.d_time = val],
                       Ok(SimTime(m.st.n_time, val)))

SimTimeOnTime(m, val) ==
  CASE ~m.st.timescale_started ->
         SimTimeReturn(Raise(m, UnexpectedToken), Err(UnexpectedToken))
    [] m.st.timescale_started /\ m.st.n_search /\ m.st.n_found ->
         SimTimeReturn(Raise(m, ImproperTimeFormatting),
                       Err(ImproperTimeFormatting))
    [] m.st.timescale_started /\ m.st.n_search /\ ~m.st.n_found ->
         [m EXCEPT !.st.n_time = val, !.st.n_found = TRUE]
    [] OTHER ->
         SimTimeReturn([m EXCEPT !.st.d_time = val],
                       Ok(SimTime(m.st.n_time, val)))

SimTimeOnTimescale_Lenient(m) == [m EXCEPT !.st.timescale_started = TRUE]

SimTimeOnTimescale(m) ==
  IF m.st.timescale_started
  THEN SimTimeReturn(Raise(m, UnexpectedToken), Err(UnexpectedToken))
  ELSE [m EXCEPT !.st.timescale_started = TRUE]

SimTimeStep(m, tok) ==
  CASE ~tok.ok -> SimTimeReturn(Raise(m, tok.err), Err(tok.err))
    [] tok.t = "Timescale" -> SimTimeOnTimescale(m)
    [] tok.t = "Time"   -> SimTimeOnTime(m, tok.v)
    [] tok.t = "Divide" -> [m EXCEPT !.st.n_search = FALSE]
    [] OTHER            -> m

SimTimeEnd(m) == SimTimeReturn(m, SimTimeResult(m.st))

\* parse_comment
CommentStep(m, tok) ==
  CASE ~tok.ok           -> CommentReturn(Raise(m, tok.err), Err(tok.err))
    [] tok.t = "Newline" -> CommentReturn(m, Ok(0))
    [] OTHER             -> m

CommentEnd(m) == CommentReturn(m, Ok(0))

(***************************************************************************)
(* Actions.  lexer.next() either is None (the cursor is at the end of the  *)
(* text) or advances the cursor by one lexeme and yields its token.        *)
(***************************************************************************)
AtEnd == pos = Len(src)

\* a cursor that hands out the token behind it once more
NextTok_Replay == Lex(src[IF pos = 0 THEN 1 ELSE pos])

NextTok == Lex(src[pos + 1])

Consumed(p) ==
  [Cur EXCEPT !.hist.owner = Append(@, p),
              !.hist.toks = Append(@, NextTok),
              !.hist.lexErrs = IF NextTok.ok THEN @ ELSE Append(@, NextTok.err)]

Active(p) == result.kind = "Running" /\ Top = p

Init ==
  /\ file \in Files
  /\ src = Render(file)
  /\ pos = 0
  /\ stack = <<"sv">>
  /\ result = Running
  /\ sv = SvLocals
  /\ md = MdLocals
  /\ io = IoLocals
  /\ vr = VrLocals("Input")
  /\ nm = ""
  /\ wd = WdLocals
  /\ st = StLocals
  /\ hist = HistInit

parse_sv_file ==
  /\ Active("sv")
  /\ IF AtEnd THEN pos' = pos /\ Commit(SvEnd(Cur))
     ELSE pos' = pos + 1 /\ Commit(SvStep(Consumed("sv"), NextTok))
  /\ UNCHANGED <<file, src>>

parse_module ==
  /\ Active("module")
  /\ IF AtEnd THEN pos' = pos /\ Commit(ModuleEnd(Cur))
     ELSE pos' = pos + 1 /\ Commit(ModuleStep(Consumed("module"), NextTok))
  /\ UNCHANGED <<file, src>>

parse_module_io ==
  /\ Active("io")
  /\ IF AtEnd THEN pos' = pos /\ Commit(IoEnd(Cur))
     ELSE pos' = pos + 1 /\ Commit(IoStep(Consumed("io"), NextTok))
  /\ UNCHANGED <<file, src>>

parse_var ==
  /\ Active("var")
  /\ IF AtEnd THEN pos' = pos /\ Commit(VarEnd(Cur))
     ELSE pos' = pos + 1 /\ Commit(VarStep(Consumed("var"), NextTok))
  /\ UNCHANGED <<file, src>>

\* a name loop that logs an unexpected token without taking it
parse_name_Peek ==
  /\ Active("name")
  /\ IF AtEnd THEN pos' = pos /\ Commit(NameEnd(Cur))
     ELSE IF NextTok.ok /\ NextTok.t = "CloseParen"
          THEN pos' = pos /\ Commit(Consumed("name"))
          ELSE pos' = pos + 1 /\ Commit(NameStep(Consumed("name"), NextTok))
  /\ UNCHANGED <<file, src>>

parse_name ==
  /\ Active("name")
  /\ IF AtEnd THEN pos' = pos /\ Commit(NameEnd(Cur))
     ELSE pos' = pos + 1 /\ Commit(NameStep(Consumed("name"), NextTok))
  /\ UNCHANGED <<file, src>>

parse_width ==
  /\ Active("width")
  /\ IF AtEnd THEN pos' = pos /\ Commit(WidthEnd(Cur))
     ELSE /\ pos' = pos + 1
          /\ \E oc \in {"panic", "wrap"} :
               Commit(WidthStep(Consumed("width"), NextTok, oc))
  /\ UNCHANGED <<file, src>>

parse_sim_time ==
  /\ Active("simtime")
  /\ IF AtEnd THEN pos' = pos /\ Commit(SimTimeEnd(Cur))
     ELSE pos' = pos + 1 /\ Commit(SimTimeStep(Consumed("simtime"), NextTok))
  /\ UNCHANGED <<file, src>>

parse_comment ==
  /\ Active("comment")
  /\ IF AtEnd THEN pos' = pos /\ Commit(CommentEnd(Cur))
     ELSE pos' = pos + 1 /\ Commit(CommentStep(Consumed("comment"), NextTok))
  /\ UNCHANGED <<file, src>>

Next ==
  \/ parse_sv_file
  \/ parse_module
  \/ parse_module_io
  \/ parse_var
  \/ parse_name
  \/ parse_width
  \/ parse_sim_time
  \/ parse_comment

Spec == Init /\ [][Next]_vars

Done == result.kind # "Running"

TypeOK ==
  /\ pos \in 0..Len(src)
  /\ result.kind \in {"Running", "Ok", "Err", "Panic"}
  /\ Len(hist.owner) = pos
  /\ (Done <=> stack = <<>>)

(***************************************************************************)
(* What the specification says a file parses to.                           *)
(***************************************************************************)
SpecWidth(rng) == IF rng = <<>> THEN 1 ELSE rng[1] - rng[2] + 1
SpecType(ty)   == IF ty = "Reg" THEN "Reg" ELSE "Wire"
SpecVar(d)     == Var(d.name, SpecWidth(d.rng), SpecType(d.ty))
SpecPorts(ps, dir) ==
  LET sel == SelectSeq(ps, LAMBDA p : p.dir = dir) IN
  [i \in 1..Len(sel) |-> Port(sel[i].name, SpecVar(sel[i]))]
SpecModule(it) ==
  Module(ModuleIO(it.name, SpecPorts(it.ports, "Input"),
                  SpecPorts(it.ports, "Output"), SpecPorts(it.ports, "Inout")),
         [i \in 1..Len(it.body) |-> SpecVar(it.body[i])])
SpecTime(it) == SimTime(Lex(it.n).v, Lex(it.d).v)

Names(ps) == [i \in 1..Len(ps) |-> ps[i].name]
Range(f)  == {f[i] : i \in DOMAIN f}

\* every Var of a SimObject: the var of each port and each body signal
AllVars(obj) ==
  UNION {{p.var : p \in Range(m.io.inputs) \cup Range(m.io.outputs)
                          \cup Range(m.io.inouts)} \cup Range(m.vars)
         : m \in Range(obj.mods)}

Kinds(items) == {it.k : it \in Range(items)}

\* names a file declares without a bracketed range
UnrangedNames(f) ==
  UNION {{d.name : d \in {x \in Range(it.ports) \cup Range(it.body) :
                            x.rng = <<>>}}
         : it \in Range(f.items)}

\* the declaration of a file that consists of one module with one ranged
\* port or one ranged body signal
RangeDecl(f) ==
  LET it == f.items[1] IN IF it.ports # <<>> THEN it.ports[1] ELSE it.body[1]

\* the signal the returned object holds for that declaration
RangeSignals(obj, d) ==
  IF Len(obj.mods) # 1 THEN <<>>
  ELSE IF d.dir = "Body" THEN obj.mods[1].vars
       ELSE [i \in 1..Len(obj.mods[1].io.inputs) |->
               obj.mods[1].io.inputs[i].var]

(***************************************************************************)
(* C1: the text "`timescale 1ns/1ps\nmodule m(input a, output b);\n wire   *)
(* c;\nendmodule\n" parses to one module m with inputs [a], outputs [b]    *)
(* and vars [c], all of width 1 and type Wire, and sim_time {1e-6, 1e-9};  *)
(* and every module with a non-empty port list closed by `);` gets the     *)
(* wire/reg signals of its body in vars.                                   *)
(***************************************************************************)
C1_ExampleObject == SimObject(SimTimeDefault, <<SpecModule(ExampleModule)>>)

C1_ExampleParses ==
  /\ (Done /\ file = ExampleFile) => result = RetOk(C1_ExampleObject)
  /\ (Done /\ file \in ModFiles /\ file.items[1].ports # <<>>) =>
       /\ result.kind = "Ok"
       /\ Len(result.obj.mods) = 1
       /\ Names(result.obj.mods[1].vars) = Names(file.items[1].body)

(***************************************************************************)
(* C2: as soon as a sub-parser called by parse_sv_file (parse_module,      *)
(* parse_sim_time, parse_comment) has returned an error, parse_sv_file has *)
(* returned that error; it never goes on and never returns Ok.             *)
(***************************************************************************)
C2_SubParserErrorReturned ==
  sv.errors # <<>> => (result.kind = "Err" /\ result.err = sv.errors[1])

(***************************************************************************)
(* C3: when the tokenizer has yielded a lexical error anywhere in the      *)
(* input, parse_sv_file returns Err with the first error raised.           *)
(***************************************************************************)
C3_LexicalErrorReturned ==
  (Done /\ hist.lexErrs # <<>>) =>
    (result.kind = "Err" /\ result.err = hist.raised[1])

(***************************************************************************)
(* C4: a file of k >= 1 module declarations parses to exactly k modules in *)
(* source order, each with the ports of its own header and no others.      *)
(***************************************************************************)
C4_ModulesInOrder ==
  (Done /\ file \in ItemFiles \cup ModFiles /\ Kinds(file.items) = {"mod"}) =>
    /\ result.kind = "Ok"
    /\ Len(result.obj.mods) = Len(file.items)
    /\ \A i \in 1..Len(file.items) :
         LET got  == result.obj.mods[i]
             want == SpecModule(file.items[i])
         IN /\ got.name = want.name
            /\ Names(got.io.inputs) = Names(want.io.inputs)
            /\ Names(got.io.outputs) = Names(want.io.outputs)
            /\ Names(got.io.inouts) = Names(want.io.inouts)

(***************************************************************************)
(* C5: a signal declared with a range [hi:lo], hi >= lo, both within the   *)
(* integer literal range, has width hi - lo + 1.                           *)
(***************************************************************************)
C5_RangeWidth ==
  (/\ Done
   /\ file \in RangeFiles
   /\ RangeDecl(file).rng[1] >= RangeDecl(file).rng[2]
   /\ IntegerFits(RangeDecl(file).rng[1])) =>
    /\ result.kind = "Ok"
    /\ LET sig == RangeSignals(result.obj, RangeDecl(file)) IN
       /\ Len(sig) = 1
       /\ sig[1].width = SpecWidth(RangeDecl(file).rng)

C7_UnrangedWidthOne ==
  (Done /\ result.kind = "Ok" /\ file \in ItemFiles \cup ModFiles) =>
    \A v \in AllVars(result.obj) :
      v.name \in UnrangedNames(file) => v.width = 1

(***************************************************************************)
(* C8: every Var of a returned SimObject has width >= 1.                   *)
(***************************************************************************)
C8_WidthAtLeastOne ==
  (Done /\ result.kind = "Ok") => \A v \in AllVars(result.obj) : v.width >= 1

(***************************************************************************)
(* C9: an input without a timescale directive that parses successfully     *)
(* has sim_time = {1e-6, 1e-9}, whatever other tokens occur.               *)
(***************************************************************************)
NoTimescale(ts) == \A i \in DOMAIN ts : ts[i].t # "Timescale"

C9_DefaultSimTime ==
  (Done /\ result.kind = "Ok" /\ NoTimescale(src)) =>
    result.obj.sim_time = SimTimeDefault

(***************************************************************************)
(* C10: when a file of well-formed items holds several top-level timescale *)
(* directives, the parse succeeds and sim_time is that of the last one.    *)
(***************************************************************************)
WellFormedItems == {Ts1, Ts2, CommentLine} \cup {it \in CoreItems : it.k = "mod"}

Directives(items) == SelectSeq(items, LAMBDA it : it.k = "ts")

C10_LastDirectiveWins ==
  (/\ Done
   /\ file.bad = 0
   /\ Range(file.items) \subseteq WellFormedItems
   /\ Len(Directives(file.items)) >= 2) =>
    /\ result.kind = "Ok"
    /\ LET ds == Directives(file.items) IN
       result.obj.sim_time = SpecTime(ds[Len(ds)])

(***************************************************************************)
(* C11: a second timescale keyword met by one parse_sim_time invocation    *)
(* (before it has consumed a denominator) makes that invocation return     *)
(* UnexpectedToken at that keyword.                                        *)
(***************************************************************************)
\* the tokens consumed so far by the invocation that consumed token j
Block(j) == {i \in 1..j : \A k \in i..j : hist.owner[k] = "simtime"}

Earlier(j, t) == \E i \in Block(j) \ {j} : src[i].t = t

SimTimeRet(j, res) ==
  \E r \in DOMAIN hist.rets :
    /\ hist.rets[r].p = "simtime"
    /\ hist.rets[r].n = j
    /\ hist.rets[r].res = res

SecondTimescale(j) ==
  /\ hist.owner[j] = "simtime"
  /\ src[j].t = "Timescale"
  /\ Earlier(j, "Timescale")

C11_SecondTimescaleRejected ==
  \A j \in DOMAIN hist.owner :
    SecondTimescale(j) => SimTimeRet(j, Err(UnexpectedToken))

C11_Witness ==
  \E j \in DOMAIN hist.owner :
    SecondTimescale(j) /\ SimTimeRet(j, Err(UnexpectedToken))

(***************************************************************************)
(* C12: every bare digit sequence whose value is at most 2^64 - 1 lexes to *)
(* an Integer token holding that value (an InvalidInteger error arises     *)
(* only above 2^64 - 1; every literal of the model lies below).            *)
(***************************************************************************)
C12_DigitsLexToInteger ==
  \A j \in DOMAIN hist.toks :
    src[j].t = "Digits" => hist.toks[j] = TokOk("Integer", "", src[j].v)

(***************************************************************************)
(* C13: when the stream ends after a wire or reg keyword of a module body  *)
(* with no identifier behind it, parse_module returns an error.            *)
(***************************************************************************)
Blank(l) == l.t \in {"WhiteSpace", "Newline"}

\* the body keyword at i is followed by nothing but blanks up to the end
DanglingKeyword(i) ==
  /\ hist.owner[i] = "module"
  /\ src[i].t \in {"Wire", "Reg"}
  /\ \A k \in (i + 1)..Len(src) : Blank(src[k])

C13_DanglingKeywordFails ==
  \A r \in DOMAIN hist.rets :
    (/\ hist.rets[r].p = "module"
     /\ hist.rets[r].n = Len(src)
     /\ \E i \in DOMAIN hist.owner : DanglingKeyword(i)) =>
      ~hist.rets[r].res.ok

(***************************************************************************)
(* C14: after a line comment met at top level, in a header or in a body,   *)
(* the next token (the first one behind the comment's newline) is handled  *)
(* by the parser that met the comment; nothing of the next line is         *)
(* discarded.                                                              *)
(***************************************************************************)
Enclosing == {"sv", "io", "module"}

C14_LineAfterCommentKept ==
  \A i \in DOMAIN hist.owner :
    (/\ src[i].t = "Comment"
     /\ hist.owner[i] \in Enclosing
     /\ (i + 1) \in DOMAIN hist.owner) =>
      hist.owner[i + 1] = hist.owner[i]

(***************************************************************************)
(* C15: in parse_module every error of a delegate (the header parser, the  *)
(* name parser of a body declaration, the comment skipper) is returned at  *)
(* once as the module's error; no default header is substituted and no     *)
(* error is logged and passed over.                                        *)
(***************************************************************************)
DelegateError(e) ==
  /\ ~e.res.ok
  /\ \/ e.p = "io"
     \/ e.p \in {"name", "comment"} /\ e.loc.caller = "module"

ModuleReturns(r, res) ==
  /\ r \in DOMAIN hist.rets
  /\ hist.rets[r].p = "module"
  /\ hist.rets[r].res = res

C15_DelegateErrorsReturned ==
  \A r \in DOMAIN hist.rets :
    DelegateError(hist.rets[r]) => ModuleReturns(r + 1, hist.rets[r].res)

(***************************************************************************)
(* C16: in the object returned for a file of module declarations, mods     *)
(* lists the modules in source order, and each module's inputs, outputs,   *)
(* inouts and vars list its declarations of that kind in source order,     *)
(* one entry per declaration (duplicate names kept).                       *)
(***************************************************************************)
DeclNames(ds, dir) == Names(SelectSeq(ds, LAMBDA d : d.dir = dir))

ListsDeclarations(got, it) ==
  /\ Names(got.io.inputs) = DeclNames(it.ports, "Input")
  /\ Names(got.io.outputs) = DeclNames(it.ports, "Output")
  /\ Names(got.io.inouts) = DeclNames(it.ports, "Inout")
  /\ Names(got.vars) = DeclNames(it.body, "Body")

C16_DeclarationOrder ==
  (/\ Done
   /\ result.kind = "Ok"
   /\ file \in ItemFiles \cup ModFiles
   /\ Kinds(file.items) = {"mod"}) =>
    /\ Names(result.obj.mods) = Names(file.items)
    /\ \A i \in DOMAIN result.obj.mods :
         ListsDeclarations(result.obj.mods[i], file.items[i])

(***************************************************************************)
(* C17: the vars of a returned module hold only signals declared by wire   *)
(* or reg in that module's body; no name declared as a port in a header    *)
(* (of this or of a later module) is ever among them.                      *)
(***************************************************************************)
\* names the file declares as ports (the generator keeps port names and
\* body signal names apart)
PortNames(f) == UNION {{d.name : d \in Range(it.ports)} : it \in Range(f.items)}

VarNames(obj) == UNION {{v.name : v \in Range(m.vars)} : m \in Range(obj.mods)}

C17_VarsOnlyBodySignals ==
  (Done /\ result.kind = "Ok") =>
    VarNames(result.obj) \cap PortNames(file) = {}

(***************************************************************************)
(* C18: while one parse_module_io invocation runs, each step leaves its    *)
(* state unchanged or moves it to the immediate successor along            *)
(* Name -> Paren -> IO -> Semi, and Name is left only when the header      *)
(* parser reads a Word, Paren only on `(`, IO only on `)`.                 *)
(***************************************************************************)
InHeader == \E i \in DOMAIN stack : stack[i] = "io"

Successor(state) ==
  CASE state = "Name"  -> "Paren"
    [] state = "Paren" -> "IO"
    [] state = "IO"    -> "Semi"
    [] OTHER           -> "none"

LeftOn(state) ==
  CASE state = "Name"  -> "Word"
    [] state = "Paren" -> "OpenParen"
    [] state = "IO"    -> "CloseParen"
    [] OTHER           -> "none"

HeaderStep ==
  (InHeader /\ InHeader') =>
    \/ io'.state = io.state
    \/ /\ io'.state = Successor(io.state)
       /\ Top = "io"
       /\ ~AtEnd
       /\ NextTok.ok
       /\ NextTok.t = LeftOn(io.state)

C18_HeaderForward == [][HeaderStep]_vars

C18_Witness == InHeader /\ io.state = "Semi"

(***************************************************************************)
(* C19: parse_sim_time returns success only after it has consumed, in this *)
(* order, a timescale keyword, a numerator time literal, a Divide and a    *)
(* denominator time literal; the returned n_time and d_time are the values *)
(* of the two literals, and the denominator is the last token it consumed. *)
(***************************************************************************)
IsTime(j) == hist.toks[j].ok /\ hist.toks[j].t = "Time"

FullDirective(j, val) ==
  \E k, n, v \in Block(j) :
    /\ k < n /\ n < v /\ v < j
    /\ src[k].t = "Timescale"
    /\ IsTime(n)
    /\ src[v].t = "Divide"
    /\ IsTime(j)
    /\ val = SimTime(hist.toks[n].v, hist.toks[j].v)

C19_SuccessOnlyAfterDirective ==
  \A r \in DOMAIN hist.rets :
    (hist.rets[r].p = "simtime" /\ hist.rets[r].res.ok) =>
      FullDirective(hist.rets[r].n, hist.rets[r].res.val)

(***************************************************************************)
(* C20: in parse_sim_time a time literal read before the timescale keyword *)
(* returns UnexpectedToken, and a second time literal read after the       *)
(* numerator and before any Divide returns ImproperTimeFormatting.         *)
(***************************************************************************)
LiteralBeforeKeyword(j) ==
  /\ hist.owner[j] = "simtime"
  /\ IsTime(j)
  /\ ~Earlier(j, "Timescale")

SecondNumerator(j) ==
  /\ hist.owner[j] = "simtime"
  /\ IsTime(j)
  /\ \E i \in Block(j) \ {j} : IsTime(i)
  /\ ~Earlier(j, "Divide")

C20_MisplacedLiteralRejected ==
  \A j \in DOMAIN hist.owner :
    /\ LiteralBeforeKeyword(j) => SimTimeRet(j, Err(UnexpectedToken))
    /\ SecondNumerator(j) => SimTimeRet(j, Err(ImproperTimeFormatting))

C20_Witness ==
  /\ \E j \in DOMAIN hist.owner :
       LiteralBeforeKeyword(j) /\ SimTimeRet(j, Err(UnexpectedToken))
  /\ \E j \in DOMAIN hist.owner :
       SecondNumerator(j) /\ SimTimeRet(j, Err(ImproperTimeFormatting))

(***************************************************************************)
(* C21: parse_name returns the triggering word followed by, in order, the  *)
(* lexeme of every Word and one "_" for every Underscore read before the   *)
(* first Semicolon or Comma; blanks add nothing and do not end the name;   *)
(* it returns on the first Semicolon or Comma, which it consumes, or at    *)
(* the end of the stream, in both cases with success.                      *)
(***************************************************************************)
\* the tokens consumed so far by the invocation of parser p that consumed
\* token j (empty when token j was consumed by another parser)
Run(p, j) == {i \in 1..j : \A k \in i..j : hist.owner[k] = p}

\* the position of the word that triggered the parse_name invocation that
\* returned after n tokens
Trigger(n) == n - Cardinality(Run("name", n))

Terminator(l) == l.t \in {"Semicolon", "Comma"}

RECURSIVE Spelled(_, _)
Spelled(i, j) ==
  IF i > j THEN ""
  ELSE (CASE src[i].t = "Word"       -> src[i].s
          [] src[i].t = "Underscore" -> "_"
          [] OTHER                   -> "") \o Spelled(i + 1, j)

NameReturnedAt(e) ==
  /\ e.res = Ok(Spelled(Trigger(e.n), e.n))
  /\ Terminator(src[e.n]) \/ e.n = Len(src)
  /\ \A k \in Run("name", e.n) \ {e.n} : ~Terminator(src[k])

LexErrorAt(n) == n \in DOMAIN hist.toks /\ ~hist.toks[n].ok

C21_NameSpelling ==
  \A r \in DOMAIN hist.rets :
    (hist.rets[r].p = "name" /\ ~LexErrorAt(hist.rets[r].n)) =>
      NameReturnedAt(hist.rets[r])

C21_Witness ==
  \E r \in DOMAIN hist.rets :
    /\ hist.rets[r].p = "name"
    /\ hist.rets[r].res = Ok("a_x")
    /\ Terminator(src[hist.rets[r].n])

(***************************************************************************)
(* C22: when the stream ends inside a width bracket, before a CloseBracket *)
(* has been consumed and without a lexical error, parse_width returns      *)
(* IncompleteWidth.                                                        *)
(***************************************************************************)
\* the bracket opened at token i is still open when the stream ends
OpenAtEnd(i) ==
  /\ Len(hist.owner) = Len(src)
  /\ src[i].t = "OpenBracket"
  /\ hist.owner[i] = "var"
  /\ \A k \in (i + 1)..Len(src) :
       /\ hist.owner[k] = "width"
       /\ hist.toks[k].ok
       /\ src[k].t # "CloseBracket"

WidthRet(n, res) ==
  \E r \in DOMAIN hist.rets :
    /\ hist.rets[r].p = "width"
    /\ hist.rets[r].n = n
    /\ hist.rets[r].res = res

C22_UnclosedBracket ==
  (Done /\ \E i \in DOMAIN src : OpenAtEnd(i)) =>
    WidthRet(Len(src), Err(IncompleteWidth))

C22_Witness ==
  /\ Done
  /\ \E i \in DOMAIN src : OpenAtEnd(i) /\ i + 2 <= Len(src)
  /\ WidthRet(Len(src), Err(IncompleteWidth))

(***************************************************************************)
(* C23: a bracket that holds exactly one integer N and then the closing    *)
(* bracket yields width N + 1 (the low bound keeps its initial value 0).   *)
(***************************************************************************)
IsInteger(j) == hist.toks[j].ok /\ hist.toks[j].t = "Integer"

\* the bracket closed at token j held the single integer at token i
SingleInteger(i, j) ==
  /\ hist.owner[j] = "width"
  /\ src[j].t = "CloseBracket"
  /\ i \in Run("width", j)
  /\ \A k \in Run("width", j) : IsInteger(k) <=> k = i

C23_SingleIntegerWidth ==
  \A j \in DOMAIN hist.owner : \A i \in 1..j :
    SingleInteger(i, j) => WidthRet(j, Ok(hist.toks[i].v + 1))

(***************************************************************************)
(* C24: parse_var returns UnexpectedToken when the stream ends before it   *)
(* has read a Word token; when it returns success the triple holds the     *)
(* last Wire/Reg keyword read before the name (Wire if none), the result   *)
(* of the last bracket parsed before the name (1 if none) and the name     *)
(* parser's result.  As stated the first part ignores the width parser: a  *)
(* stream that ends inside a bracket returns IncompleteWidth (C22), so the *)
(* statement checked excepts the returns that forward a delegate's error,  *)
(* and says that those and a lexical error read by parse_var itself are    *)
(* returned unchanged.                                                     *)
(***************************************************************************)
SetMax(S) == CHOOSE x \in S : \A y \in S : y <= x

PortKeyword(l) == l.t \in {"Input", "Output", "Inout"}

\* the port keyword that started the parse_var invocation returning at n
VarStart(n) ==
  SetMax({i \in 1..n : hist.owner[i] = "io" /\ PortKeyword(src[i])})

VarRead(s, n, kinds) ==
  {k \in (s + 1)..n : hist.owner[k] = "var" /\ src[k].t \in kinds}

LastType(s, n) ==
  IF VarRead(s, n, {"Wire", "Reg"}) = {} THEN "Wire"
  ELSE src[SetMax(VarRead(s, n, {"Wire", "Reg"}))].t

LastWidth(r, s) ==
  LET W == {q \in 1..(r - 1) :
              /\ hist.rets[q].p = "width"
              /\ hist.rets[q].n > s
              /\ hist.rets[q].res.ok}
  IN IF W = {} THEN 1 ELSE hist.rets[SetMax(W)].res.val

\* the stream has ended on the parse_var invocation that returns in entry r
\* before it read a Word
EndsBeforeWord(r) ==
  LET n == hist.rets[r].n IN
  /\ n = Len(src)
  /\ ~LexErrorAt(n)
  /\ VarRead(VarStart(n), n, {"Word"}) = {}

\* entry r forwards the failure of the width parser or the name parser
DelegateFailed(r) ==
  /\ r > 1
  /\ hist.rets[r - 1].p \in {"width", "name"}
  /\ hist.rets[r - 1].n = hist.rets[r].n
  /\ ~hist.rets[r - 1].res.ok

VarSuccess(r) ==
  LET e == hist.rets[r]
      s == VarStart(e.n)
  IN e.res.ok =>
       /\ hist.rets[r - 1].p = "name"
       /\ e.res.val = [var_type |-> LastType(s, e.n),
                       name |-> hist.rets[r - 1].res.val,
                       width |-> LastWidth(r, s)]

C24_VarResultAsStated ==
  \A r \in DOMAIN hist.rets :
    hist.rets[r].p = "var" =>
      /\ EndsBeforeWord(r) => hist.rets[r].res = Err(UnexpectedToken)
      /\ VarSuccess(r)

C24_VarResult ==
  \A r \in DOMAIN hist.rets :
    hist.rets[r].p = "var" =>
      /\ (EndsBeforeWord(r) /\ ~DelegateFailed(r)) =>
           hist.rets[r].res = Err(UnexpectedToken)
      /\ DelegateFailed(r) => hist.rets[r].res = hist.rets[r - 1].res
      /\ (LexErrorAt(hist.rets[r].n) /\ hist.owner[hist.rets[r].n] = "var") =>
           hist.rets[r].res = Err(hist.toks[hist.rets[r].n].err)
      /\ VarSuccess(r)

C24_Witness ==
  /\ \E r \in DOMAIN hist.rets :
       /\ hist.rets[r].p = "var"
       /\ EndsBeforeWord(r) /\ ~DelegateFailed(r)
       /\ hist.rets[r].res = Err(UnexpectedToken)
  /\ \E r \in DOMAIN hist.rets :
       hist.rets[r].p = "var" /\ hist.rets[r].res.ok

(***************************************************************************)
(* C25: whenever parse_var returns to a port parser, a success produces    *)
(* exactly one Input, Output or Inout record, of the kind of the port      *)
(* keyword, with name = var.name = the returned name, the returned type    *)
(* and width, state = false and hi_z = false; a failure produces no record *)
(* and is returned unchanged.                                              *)
(***************************************************************************)
PortRecord(t) ==
  [name |-> t.name,
   var |-> [name |-> t.name, width |-> t.width, var_type |-> t.var_type,
            state |-> FALSE, hi_z |-> FALSE]]

Lists(l) == [Input |-> l.inputs, Output |-> l.outputs, Inout |-> l.inouts]

PortStep ==
  \A r \in DOMAIN hist'.rets :
    (r > Len(hist.rets) /\ hist'.rets[r].p = "var") =>
      IF hist'.rets[r].res.ok
      THEN Lists(io') = [Lists(io) EXCEPT
                           ![vr.port] = Append(@, PortRecord(hist'.rets[r].res.val))]
      ELSE /\ Lists(io') = Lists(io)
           /\ hist'.rets[r + 1].p = "io"
           /\ hist'.rets[r + 1].res = hist'.rets[r].res

C25_PortRecords == [][PortStep]_vars

C25_Witness ==
  /\ \E i \in DOMAIN io.outputs :
       io.outputs[i] = PortRecord([name |-> "f", width |-> 2, var_type |-> "Wire"])
  /\ \E i \in DOMAIN io.inputs :
       io.inputs[i] = PortRecord([name |-> "e", width |-> 1, var_type |-> "Reg"])

(***************************************************************************)
(* C26: when the tokenizer yields a lexical error to parse_comment, the    *)
(* comment skipper returns the error kind ImproperCommentFormatting and    *)
(* not the lexical error itself.                                           *)
(***************************************************************************)
\* the error kind the statement names; LexingError has no such variant
ImproperCommentFormatting == "ImproperCommentFormatting"

CommentLexError(e) ==
  /\ e.p = "comment"
  /\ LexErrorAt(e.n)
  /\ hist.owner[e.n] = "comment"

C26_CommentErrorKind ==
  \A r \in DOMAIN hist.rets :
    CommentLexError(hist.rets[r]) =>
      hist.rets[r].res = Err(ImproperCommentFormatting)

(***************************************************************************)
(* C27: a lexical error on any token consumed while parse_module_io runs   *)
(* (by itself, by a port parser or by a comment skip it delegated to in    *)
(* state IO or Semi) makes parse_module_io return that error in the same   *)
(* step, consuming nothing more.                                           *)
(***************************************************************************)
HeaderReturns(res) ==
  \E r \in DOMAIN hist'.rets :
    /\ r > Len(hist.rets)
    /\ hist'.rets[r].p = "io"
    /\ hist'.rets[r].res = res

HeaderErrorStep ==
  (InHeader /\ pos' = pos + 1 /\ ~NextTok.ok) =>
    (~InHeader' /\ HeaderReturns(Err(NextTok.err)))

C27_HeaderLexError == [][HeaderErrorStep]_vars

(***************************************************************************)
(* C28: whenever parse_module's body loop consumes an EndModule token it   *)
(* stops and returns the module, whatever mode it is in, so that no token  *)
(* behind a module's endmodule is consumed for that module.                *)
(***************************************************************************)
ModuleRetAt(j) ==
  \E r \in DOMAIN hist.rets :
    /\ hist.rets[r].p = "module"
    /\ hist.rets[r].n = j
    /\ hist.rets[r].res.ok

C28_EndModuleReturns ==
  \A j \in DOMAIN hist.owner :
    (hist.owner[j] = "module" /\ src[j].t = "EndModule") => ModuleRetAt(j)

(***************************************************************************)
(* C29: for a body declaration  wire|reg [hi:lo] name;  the Var appended   *)
(* by parse_module is the one parse_var would return for the same tokens:  *)
(* the keyword's type, the name, and width hi - lo + 1 (1 without a        *)
(* range); a body declaration whose range has hi < lo is an error.         *)
(***************************************************************************)
BodyOnly(f) ==
  /\ f \in ModFiles \cup RangeFiles
  /\ f.items[1].ports = <<>>
  /\ \A d \in Range(f.items[1].body) :
       d.rng # <<>> => IntegerFits(d.rng[1]) /\ IntegerFits(d.rng[2])

Malformed(d) == d.rng # <<>> /\ d.rng[1] < d.rng[2]

C29_BodyDeclAsVar ==
  (Done /\ BodyOnly(file)) =>
    LET body == file.items[1].body IN
    IF \E d \in Range(body) : Malformed(d)
    THEN result.kind = "Err"
    ELSE /\ result.kind = "Ok"
         /\ Len(result.obj.mods) = 1
         /\ result.obj.mods[1].vars = [i \in 1..Len(body) |-> SpecVar(body[i])]

(***************************************************************************)
(* C30: on every finite token stream parse_sv_file and its sub-parsers     *)
(* terminate: every loop iteration of every parser consumes a token (also  *)
(* one that only logs an unexpected token and changes nothing else), once  *)
(* the stream is exhausted every step returns from a parser, and a parse   *)
(* that has not returned can always take a step.  The pair (tokens left,   *)
(* depth of the call stack) thus decreases with every step until           *)
(* parse_sv_file returns.                                                  *)
(***************************************************************************)
ProgressStep ==
  \/ pos' = pos + 1
  \/ /\ AtEnd
     /\ pos' = pos
     /\ Len(stack') < Len(stack) \/ result'.kind # "Running"

C30_Terminates == [][ProgressStep]_vars /\ [](~Done => ENABLED Next)

\* a run that has ended after iterations that only logged a token: an
\* `assign` at top level, a `)` inside a name
C30_Witness ==
  /\ Done
  /\ Len(hist.owner) = Len(src)
  /\ \E j \in DOMAIN src :
       \/ src[j].t = "Assign" /\ hist.owner[j] = "sv"
       \/ src[j].t = "CloseParen" /\ hist.owner[j] = "name"

(***************************************************************************)
(* C31: the whole parse shares one cursor that only moves forward: the     *)
(* tokens handed out by lexer.next(), to whichever parser is running, are  *)
(* the tokens of the stream in order, each one once and to one parser (so  *)
(* no caller is handed a token its callee consumed), and parse_sv_file     *)
(* returns Ok only with the cursor at the end of the stream.               *)
(***************************************************************************)
CursorStep == pos' = pos \/ pos' = pos + 1

\* the k-th token handed out is the k-th token of the stream, and it went
\* to one parser
DeliveredOnce ==
  /\ Len(hist.toks) = pos
  /\ Len(hist.owner) = pos
  /\ \A k \in 1..pos : hist.toks[k] = Lex(src[k])

OkAtEnd == result.kind = "Ok" => pos = Len(src)

C31_SingleForwardCursor ==
  [][CursorStep]_vars /\ [](DeliveredOnce /\ OkAtEnd)

\* a finished parse in which callees consumed tokens and their callers
\* went on reading behind them
C31_Witness ==
  /\ result.kind = "Ok"
  /\ pos = Len(src)
  /\ \E i, j, k \in DOMAIN hist.owner :
       /\ i < j /\ j < k
       /\ hist.owner[i] = "io"
       /\ hist.owner[j] = "name"
       /\ hist.owner[k] = "io"

====
